---- MODULE Spec2Model ----
(***************************************************************************)
(* AccessAuditPro: the scan orchestration pipeline.                        *)
(*                                                                         *)
(*   - server/services/url-sanitizer.ts : sanitizeTarget, isPrivateIP      *)
(*   - server/routes.ts (three revisions) : POST /api/scans,               *)
(*     POST /api/scan/free and their background tasks                      *)
(*   - server/services/scanner.ts : scanWebsite, generateReport,           *)
(*     generateBasicReport                                                 *)
(*   - server/storage.ts : createScan, updateScanStatus                    *)
(*                                                                         *)
(* Host names and IP addresses are sequences of one-character strings, so  *)
(* that the regular expressions and the substring tests of the sanitizer   *)
(* are computed on the text they are applied to.                           *)
(***************************************************************************)
EXTENDS Integers, Sequences, FiniteSets, TLC

VARIABLES
    sanInput,   \* sanitizeTarget: the input under test
    sanDns,     \* sanitizeTarget: what dns.resolve4 answers for the host
    sanOut      \* sanitizeTarget: its outcome, NotCalled before the call

sanVars == <<sanInput, sanDns, sanOut>>

VARIABLES
    routes,         \* which revision of server/routes.ts is deployed
    pc,             \* per request: where its handler or background task is
    req,            \* per request: endpoint and body, NoReq before it arrives
    responses,      \* per request: the HTTP status codes sent, in order
    scans,          \* storage: scan id -> [status, reportUrl]
    currentScanId,  \* storage: the next serial id
    scanOf,         \* per request: id of the record createScan returned, or 0
    isTestPage,     \* per task: the flag of routes.ts
    results,        \* per task: the ScanResult handed to report generation
    reportPath,     \* per task: what the report generator resolved with
    log,            \* per request: the calls that have settled, in order
    loads,          \* targets an HTTP fetch or a browser navigation went to
    accepted,       \* targets sanitizeTarget has returned
    files,          \* report files on disk: [name, complete]
    clock,          \* last value Date.now() returned
    ending          \* per task: how its promise chain ended

mainVars ==
    <<routes, pc, req, responses, scans, currentScanId, scanOf, isTestPage,
      results, reportPath, log, loads, accepted, files, clock, ending>>

VARIABLES
    scCall,         \* the scanner call under way: [fn, url]
    scPc,           \* where that call is
    fetchAttempts,  \* scanWebsite: the counter of its fetch loop
    fetchLog,       \* scanWebsite: the fetch attempts made, in order
    scIo,           \* what the call has issued: "fetch", "launch", "readFile"
    cap,            \* per screenshot capture: [pc, browser, result]
    axeRes,         \* what axe-core reported, NoResults before it ran
    vi,             \* the index of the per-violation loop
    shots,          \* the evidence recorded so far
    outlined,       \* loop indexes of the elements whose style.outline is set
    captures,       \* per evidence screenshot taken: [index, outlined]
    scOut           \* how the call ended, kind "pending" before

scanVars ==
    <<scCall, scPc, fetchAttempts, fetchLog, scIo, cap, axeRes, vi, shots,
      outlined, captures, scOut>>

vars == <<sanVars, mainVars, scanVars>>

None == "none"

(***************************************************************************)
(* Text helpers                                                            *)
(***************************************************************************)
DigitChars == <<"0", "1", "2", "3", "4", "5", "6", "7", "8", "9">>

IsDigit(c) == \E i \in 1..Len(DigitChars) : DigitChars[i] = c

RECURSIVE NumStr(_)
\* decimal text of a natural number
NumStr(n) ==
    IF n < 10 THEN <<DigitChars[n + 1]>>
    ELSE NumStr(n \div 10) \o <<DigitChars[(n % 10) + 1]>>

\* dotted-quad text of an address given by its four octets
IpStr(o) ==
    NumStr(o[1]) \o <<".">> \o NumStr(o[2]) \o <<".">> \o NumStr(o[3])
        \o <<".">> \o NumStr(o[4])

StartsWith(s, p) == Len(s) >= Len(p) /\ SubSeq(s, 1, Len(p)) = p

\* String.prototype.includes
Includes(s, sub) ==
    \E i \in 1..(Len(s) - Len(sub) + 1) : SubSeq(s, i, i + Len(sub) - 1) = sub

RECURSIVE SplitDots(_)
\* the segments of s between its dots
SplitDots(s) ==
    IF \A i \in 1..Len(s) : s[i] # "."
    THEN <<s>>
    ELSE LET d == CHOOSE i \in 1..Len(s) :
                      s[i] = "." /\ \A j \in 1..(i - 1) : s[j] # "."
         IN  <<SubSeq(s, 1, d - 1)>> \o SplitDots(SubSeq(s, d + 1, Len(s)))

(***************************************************************************)
(* url-sanitizer.ts                                                        *)
(***************************************************************************)
\* the i-th regular expression of PRIVATE_IP_RANGES, tested on the text ip
PRIVATE_IP_RANGES(i, ip) ==
    CASE i = 1 -> StartsWith(ip, <<"1", "0", ".">>)
      [] i = 2 -> /\ StartsWith(ip, <<"1", "7", "2", ".">>)
                  /\ Len(ip) >= 7
                  /\ \/ ip[5] = "1" /\ ip[6] \in {"6", "7", "8", "9"}
                     \/ ip[5] = "2" /\ IsDigit(ip[6])
                     \/ ip[5] = "3" /\ ip[6] \in {"0", "1"}
                  /\ ip[7] = "."
      [] i = 3 -> StartsWith(ip, <<"1", "9", "2", ".", "1", "6", "8", ".">>)
      [] i = 4 -> StartsWith(ip, <<"1", "2", "7", ".">>)
      [] i = 5 -> StartsWith(ip, <<"1", "6", "9", ".", "2", "5", "4", ".">>)
      [] i = 6 -> StartsWith(ip, <<"2", "2", "4", ".">>)
      [] i = 7 -> ip = IpStr(<<255, 255, 255, 255>>)

NumPrivateRanges == 7

isPrivateIP(ip) == \E i \in 1..NumPrivateRanges : PRIVATE_IP_RANGES(i, ip)

\* /^(\d{1,3}\.){3}\d{1,3}$/
ipv4Regex(hostname) ==
    LET parts == SplitDots(hostname)
    IN  /\ Len(parts) = 4
        /\ \A k \in 1..4 :
              /\ Len(parts[k]) \in 1..3
              /\ \A j \in 1..Len(parts[k]) : IsDigit(parts[k][j])

\* a host name as the text the URL parser hands back (lower case)
hLocalhost == <<"l", "o", "c", "a", "l", "h", "o", "s", "t">>
hIPv6Loop == <<"[", ":", ":", "1", "]">>
hExample == <<"e", "x", "a", "m", "p", "l", "e", ".", "c", "o", "m">>
hRebind == <<"r", "e", "b", "i", "n", "d", ".", "i", "o">>
hIntranet == <<"w", "i", "k", "i", ".", "c", "o", "r", "p", ".", "n", "e", "t">>
hFtp == <<"f", "t", "p">>

\* blockedDomains, url-sanitizer.ts:87-94
blockedDomains ==
    << <<"i", "n", "t", "e", "r", "n", "a", "l">>,
       <<"l", "o", "c", "a", "l">>,
       hLocalhost,
       <<"i", "n", "t", "r", "a", "n", "e", "t">>,
       <<"c", "o", "r", "p">>,
       <<"h", "o", "m", "e">> >>

\* What the caller typed, as far as sanitizeTarget looks at it:
\*   empty  - the empty string (falsy input)
\*   scheme - "https", "http", "ftp" or "" (no scheme typed)
\*   host   - the host part, already in the URL parser's normal form
\*   parses - whether new URL() accepts the normalised string
SanInput(empty, scheme, host, parses) ==
    [empty |-> empty, scheme |-> scheme, host |-> host, parses |-> parses]

Rejected(msg) == [ok |-> FALSE, error |-> msg]

Accepted(protocol, hostname) ==
    [ok |-> TRUE, protocol |-> protocol, host |-> hostname]

\* url.protocol (without its colon) after the "add https if no protocol specified" step: only an
\* input that starts with http:// or https:// keeps its scheme
urlProtocol(input) ==
    IF input.scheme \in {"http", "https"} THEN input.scheme ELSE "https"

\* url.hostname: for "ftp://host" the prefixed string is "https://ftp://host",
\* whose host is "ftp"
urlHostname(input) ==
    IF input.scheme \in {"http", "https", ""} THEN input.host ELSE hFtp

\* the try block around dnsResolve: its own throw for a private address is
\* caught by its own catch
dnsCheckPasses(dns) ==
    /\ dns.ok
    /\ \A k \in 1..Len(dns.ips) : ~isPrivateIP(dns.ips[k])

\* sanitizeTarget(input), with dns the answer dns.resolve4 gives for the host
sanitizeTarget(input, dns) ==
    LET hostname == urlHostname(input)
    IN  IF input.empty THEN Rejected("Invalid URL input")
        ELSE IF ~input.parses THEN Rejected("Invalid URL format")
        ELSE IF urlProtocol(input) # "https"
             THEN Rejected("Only HTTPS URLs are allowed")
        ELSE IF hostname = hLocalhost \/ hostname = IpStr(<<0, 0, 0, 0>>)
             THEN Rejected("Localhost access is not allowed")
        ELSE IF hostname = hIPv6Loop
             THEN Rejected("IPv6 localhost access is not allowed")
        ELSE IF ipv4Regex(hostname) /\ isPrivateIP(hostname)
             THEN Rejected("Private IP addresses are not allowed")
        ELSE IF ~dnsCheckPasses(dns)
             THEN Rejected("Unable to resolve domain name")
        ELSE IF \E b \in 1..Len(blockedDomains) :
                    Includes(hostname, blockedDomains[b])
             THEN Rejected("Internal domain names are not allowed")
        ELSE Accepted(urlProtocol(input), hostname)

(***************************************************************************)
(* The inputs sanitizeTarget is exercised on                               *)
(***************************************************************************)
\* first and second octets around every boundary of the blocked ranges
FirstOctets == {1, 9, 10, 11, 93, 100, 126, 127, 128, 169, 172, 192,
                223, 224, 225, 232, 239, 240, 255}
SecondOctets == {0, 15, 16, 20, 31, 32, 168, 169, 254, 255}

Addresses ==
    {<<a, b, 0, 5>> : a \in FirstOctets, b \in SecondOctets}
        \cup {<<255, 255, 255, 255>>, <<0, 0, 0, 0>>}

\* longest answer of dns.resolve4 that is tried
MaxDnsAnswers == 2

\* the addresses a resolver may answer with
DnsPool == {<<93, 184, 216, 34>>, <<10, 0, 0, 5>>, <<127, 0, 0, 1>>,
            <<169, 254, 169, 254>>, <<172, 16, 0, 1>>, <<192, 168, 1, 1>>,
            <<224, 0, 0, 251>>, <<239, 255, 255, 250>>}

DnsFail == [ok |-> FALSE, ips |-> <<>>]

DnsAnswers ==
    {DnsFail} \cup
    {[ok |-> TRUE, ips |-> [k \in DOMAIN f |-> IpStr(f[k])]] :
        f \in UNION {[1..n -> DnsPool] : n \in 1..MaxDnsAnswers}}

SanHosts ==
    {IpStr(a) : a \in Addresses}
        \cup {hLocalhost, hIPv6Loop, hExample, hRebind, hIntranet}

SanInputs ==
    {SanInput(TRUE, "", <<>>, FALSE), SanInput(FALSE, "https", <<>>, FALSE)}
        \cup {SanInput(FALSE, "https", h, TRUE) : h \in SanHosts}
        \cup {SanInput(FALSE, sch, hExample, TRUE) : sch \in {"", "http", "ftp"}}

(***************************************************************************)
(* scanner.ts: results and report generation                               *)
(***************************************************************************)
\* the value of a variable that was never assigned, or of `return;`
Undefined == [undefined |-> TRUE]

\* no ScanResult yet
NoResults == [absent |-> TRUE]

\* a SQL NULL report_url
NullUrl == [null |-> TRUE]

\* a rule result; tags says whether it carries the tags array axe-core adds
RuleResult(id, impact, tags) == [id |-> id, impact |-> impact, tags |-> tags]

\* interface ScanResult; lists says that violations and passes are arrays
ScanResult(violations, passes, error, screenshot) ==
    [lists |-> TRUE, violations |-> violations, passes |-> passes,
     incomplete |-> <<>>, error |-> error, screenshot |-> screenshot]

hTest == <<"t", "e", "s", "t">>
hTestSample == hTest \o <<"-", "s", "a", "m", "p", "l", "e">>
hTestAccessible ==
    hTest \o <<"-", "a", "c", "c", "e", "s", "s", "i", "b", "l", "e">>

\* the raw string typed is one of the sentinel tokens
isSentinel(url) ==
    url.scheme = "" /\ url.host \in {hTest, hTestSample, hTestAccessible}

\* the pages under server/test-pages
BundledPages == {"index.html", "accessible.html"}

\* the page scanWebsite hands to scanTestPage for a sentinel token
testPagePath(url) ==
    IF url.host \in {hTestSample, hTest} THEN "sample.html"
    ELSE "accessible.html"

\* "Ensure URL has a protocol": what scanWebsite fetches and navigates to
fetchTarget(url) ==
    [protocol |-> IF url.scheme \in {"http", "https"} THEN url.scheme
                  ELSE "https",
     host |-> IF url.scheme \in {"http", "https", ""} THEN url.host
              ELSE hFtp]

\* what axe-core may report for a page
AxeFindings ==
    {[violations |-> <<>>, passes |-> <<>>],
     [violations |-> <<RuleResult("image-alt", "critical", TRUE)>>,
      passes |-> <<RuleResult("html-lang", "serious", TRUE)>>]}

\* scanWebsite: the partial result returned when axe.run failed
ruleEngineFailure == ScanResult(<<>>, <<>>, "axe failed", None)

\* the ways a call of scanWebsite(url) can end; the page screenshot is a
\* data URL for a test page, and raw base64 or missing for a fetched page
scanWebsiteOutcomes(url) ==
    IF isSentinel(url)
    THEN \* scanTestPage: rejects (readFile or axe.run failed), or, when the
         \* page is there, resolves with the static screenshot
         {[throws |-> TRUE, result |-> NoResults]} \cup
         {[throws |-> FALSE,
           result |-> ScanResult(f.violations, f.passes, None, "dataurl")] :
             f \in IF testPagePath(url) \in BundledPages THEN AxeFindings
                   ELSE {}}
    ELSE \* fetch or DOM construction fails; axe fails; axe succeeds
         {[throws |-> TRUE, result |-> NoResults],
          [throws |-> FALSE, result |-> ruleEngineFailure]} \cup
         {[throws |-> FALSE,
           result |-> ScanResult(f.violations, f.passes, None,
                                 IF f.violations = <<>> THEN None
                                 ELSE "base64")] :
             f \in AxeFindings}

\* routes.ts: "create a basic result with some sample data"
cannedResults ==
    ScanResult(<<RuleResult("image-alt", "critical", FALSE),
                 RuleResult("color-contrast", "serious", FALSE)>>,
               <<RuleResult("document-title", "moderate", FALSE),
                 RuleResult("html-lang", "serious", FALSE)>>,
               None, None)

\* routes.ts: "continue with an error report instead of failing"
syntheticResults == ScanResult(<<>>, <<>>, "Failed to scan website", None)

\* a settled (or forever pending) promise of a report path, with the files
\* the call left on disk
Settled(kind, value, written) ==
    [kind |-> kind, value |-> value, written |-> written]

\* path.join(reportsDir, `${prefix}_${t}.pdf`)
ReportPath(prefix, t) == [dir |-> "reports", prefix |-> prefix, t |-> t]

ReportFile(prefix, t, complete) ==
    {[path |-> ReportPath(prefix, t), complete |-> complete]}

\* generateBasicReport(url) called when Date.now() is t
generateBasicReport(t, mkdirOk, streamOk) ==
    IF ~mkdirOk THEN Settled("rejected", Undefined, {})
    ELSE IF ~streamOk THEN Settled("rejected", Undefined, {})
    ELSE Settled("resolved", ReportPath("basic_report", t),
                 ReportFile("basic_report", t, TRUE))

\* violation.tags.filter(...) and pass.tags.find(...) on a rule result
tagsDereferenceThrows(list) == \E k \in 1..Len(list) : ~list[k].tags

\* generateReport(url, results) called when Date.now() is t; its write stream
\* has no 'error' listener, so when the stream fails the promise is never
\* settled ("pending") and the task that awaits it never goes on
generateReport(res, t, mkdirOk, streamOk) ==
    IF res = NoResults \/ ~res.lists
    THEN generateBasicReport(t, mkdirOk, streamOk)
    ELSE IF ~mkdirOk THEN Settled("rejected", Undefined, {})
    ELSE IF res.error # None
         THEN \* "return; // Skip the regular metrics display"
              Settled("resolved", Undefined,
                      IF streamOk THEN ReportFile("scan", t, FALSE) ELSE {})
    ELSE IF tagsDereferenceThrows(res.violations)
              \/ tagsDereferenceThrows(res.passes)
         THEN Settled("rejected", Undefined,
                      IF streamOk THEN ReportFile("scan", t, FALSE) ELSE {})
    ELSE IF ~streamOk THEN Settled("pending", Undefined, {})
    ELSE Settled("resolved", ReportPath("scan", t), ReportFile("scan", t, TRUE))

\* `/reports/${path.basename(reportPath)}`; path.basename throws a TypeError
\* when its argument is not a string
reportUrlOf(path) == [dir |-> "/reports/", prefix |-> path.prefix, t |-> path.t]

basenameThrows(path) == path = Undefined

(***************************************************************************)
(* storage.ts                                                              *)
(***************************************************************************)
\* createScan: the row inserted, status "pending"
createScan(table, id) ==
    [k \in DOMAIN table \cup {id} |->
        IF k = id THEN [status |-> "pending", reportUrl |-> NullUrl]
        ELSE table[k]]

\* updateScanStatus(scanId, status, reportUrl?): an undefined reportUrl leaves
\* the column as it is
updateScanStatus(table, id, status, reportUrl) ==
    [k \in DOMAIN table |->
        IF k = id
        THEN [status |-> status,
              reportUrl |-> IF reportUrl = Undefined
                            THEN table[k].reportUrl ELSE reportUrl]
        ELSE table[k]]

(***************************************************************************)
(* routes.ts: POST /api/scans and POST /api/scan/free                      *)
(***************************************************************************)
\* number of requests in flight
MaxScans == 1

\* largest value Date.now() takes
MaxClock == 1

Reqs == 1..MaxScans

\* part_006 (with the report fallbacks and /api/scan/free), server/routes.ts
\* (scan, report, update) and part_007 (a timer that marks the scan completed)
Revisions == {"full", "simple", "stub"}

NoReq == [absent |-> TRUE]

ExternalUrls ==
    {SanInput(FALSE, "https", hExample, TRUE),
     SanInput(FALSE, "https", IpStr(<<10, 0, 0, 5>>), TRUE)}

\* bodies that pass freeScanSchema
FreeUrls ==
    {SanInput(FALSE, "https", IpStr(<<10, 0, 0, 5>>), TRUE),
     SanInput(FALSE, "", hExample, TRUE)}

\* bodies that pass insertScanSchema: the sentinel tokens and the external
\* URLs
ScanUrls ==
    {SanInput(FALSE, "", h, TRUE) : h \in {hTestSample, hTestAccessible}}
        \cup ExternalUrls

\* what dns.resolve4 may answer while a free scan is sanitized
FreeDnsAnswers ==
    {DnsFail,
     [ok |-> TRUE, ips |-> <<IpStr(<<93, 184, 216, 34>>)>>],
     [ok |-> TRUE, ips |-> <<IpStr(<<239, 255, 255, 250>>)>>]}

Request(endpoint, authed, valid, url) ==
    [endpoint |-> endpoint, authed |-> authed, valid |-> valid, url |-> url]

\* the entries of log
UpdateCall(id, status, reportUrl, ok) ==
    [ev |-> "updateScanStatus", id |-> id, status |-> status,
     reportUrl |-> reportUrl, ok |-> ok]

ScanCall(threw) == [ev |-> "scanWebsite", threw |-> threw]

ReportCall(fn, g, envOk) ==
    [ev |-> fn, kind |-> g.kind, value |-> g.value, envOk |-> envOk]

SanitizeCall(out) == [ev |-> "sanitizeTarget", ok |-> out.ok]

Logged(r, entry) == log' = [log EXCEPT ![r] = Append(@, entry)]

\* the awaits of updateScanStatus, named by revision and source line
CompletedCalls == {"u236", "u247", "s43", "t28"}
FailedCalls == {"u250", "u254", "u259", "s47", "t30"}
UpdateCalls == CompletedCalls \cup FailedCalls

\* nothing has been requested yet
MainIdle ==
    /\ pc = [r \in Reqs |-> "idle"]
    /\ req = [r \in Reqs |-> NoReq]
    /\ responses = [r \in Reqs |-> <<>>]
    /\ scans = <<>>
    /\ currentScanId = 1
    /\ scanOf = [r \in Reqs |-> 0]
    /\ isTestPage = [r \in Reqs |-> FALSE]
    /\ results = [r \in Reqs |-> NoResults]
    /\ reportPath = [r \in Reqs |-> Undefined]
    /\ log = [r \in Reqs |-> <<>>]
    /\ loads = {}
    /\ accepted = {}
    /\ files = {}
    /\ clock = 0
    /\ ending = [r \in Reqs |-> "running"]

NotCalled == [called |-> FALSE]

\* the screenshot captures a scanner call can start: the captureScreenshot
\* that scanWebsite starts and never awaits, the one it awaits,
\* captureViolationScreenshots, and the browser of scanSinglePageForFree
Captures == {"parallel", "main", "violations", "free"}

CapIdle == [pc |-> "idle", browser |-> "none", result |-> "pending"]

\* no scanner call is under way
ScanIdle ==
    /\ scCall = NoReq
    /\ scPc = "idle"
    /\ fetchAttempts = 0
    /\ fetchLog = <<>>
    /\ scIo = {}
    /\ cap = [o \in Captures |-> CapIdle]
    /\ axeRes = NoResults
    /\ vi = 0
    /\ shots = <<>>
    /\ outlined = {}
    /\ captures = <<>>
    /\ scOut = [kind |-> "pending"]

Init ==
    /\ routes \in Revisions
    /\ MainIdle
    /\ ScanIdle
    /\ sanInput = SanInput(TRUE, "", <<>>, FALSE)
    /\ sanDns = DnsFail
    /\ sanOut = NotCalled

\* express sends one response per request: a second res.status().json() throws
Respond(r, code) == responses' = [responses EXCEPT ![r] = Append(@, code)]

\* app.post("/api/scans"): authentication, insertScanSchema.parse, and the
\* call of storage.createScan
PostScans(r) ==
    /\ pc[r] = "idle"
    /\ \E authed \in BOOLEAN, valid \in BOOLEAN, url \in ScanUrls :
         /\ (authed /\ valid) \/ url = SanInput(FALSE, "", hTestSample, TRUE)
         /\ req' = [req EXCEPT ![r] = Request("scans", authed, valid, url)]
         /\ IF ~authed
            THEN pc' = [pc EXCEPT ![r] = "done"] /\ Respond(r, 401)
            ELSE IF ~valid
            THEN pc' = [pc EXCEPT ![r] = "done"] /\ Respond(r, 400)
            ELSE pc' = [pc EXCEPT ![r] = "creating"] /\ UNCHANGED responses
    /\ UNCHANGED <<routes, scans, currentScanId, scanOf, isTestPage, results,
                   reportPath, log, loads, accepted, files, clock, ending,
                   sanVars, scanVars>>

\* await storage.createScan(...): the insert succeeds or rejects
CreateScanSettles(r) ==
    /\ pc[r] = "creating"
    /\ \E ok \in BOOLEAN :
         IF ok
         THEN /\ scans' = createScan(scans, currentScanId)
              /\ scanOf' = [scanOf EXCEPT ![r] = currentScanId]
              /\ currentScanId' = currentScanId + 1
              /\ pc' = [pc EXCEPT ![r] = "created"]
              /\ UNCHANGED responses
         ELSE /\ pc' = [pc EXCEPT ![r] = "done"]
              /\ Respond(r, 500)
              /\ UNCHANGED <<scans, scanOf, currentScanId>>
    /\ UNCHANGED <<routes, req, isTestPage, results, reportPath, log,
                   loads, accepted, files, clock, ending, sanVars, scanVars>>

\* res.status(201).json(scan)
Respond201(r) ==
    /\ pc[r] = "created"
    /\ Respond(r, 201)
    /\ pc' = [pc EXCEPT ![r] = "responded"]
    /\ UNCHANGED <<routes, req, scans, currentScanId, scanOf, isTestPage,
                   results, reportPath, log, loads, accepted, files, clock,
                   ending, sanVars, scanVars>>

\* a handler that starts the background task as soon as the record exists
taskStartsBeforeResponse == "created"

\* the state of the handler in which the background task is started
taskStartsAt == "responded"

\* the synchronous head of the background task: isTestPage, and scanWebsite
\* up to its first await (for an external URL the first fetch is issued)
StartTask(r) ==
    /\ pc[r] = taskStartsAt
    /\ routes \in {"full", "simple"}
    /\ isTestPage' = [isTestPage EXCEPT ![r] =
                         routes = "full" /\ isSentinel(req[r].url)]
    /\ loads' = IF isSentinel(req[r].url) THEN loads
                ELSE loads \cup {fetchTarget(req[r].url)}
    /\ pc' = [pc EXCEPT ![r] = "scanning"]
    /\ UNCHANGED <<routes, req, responses, scans, currentScanId, scanOf,
                   results, reportPath, log, accepted, files, clock,
                   ending, sanVars, scanVars>>

\* the catch (scanError) block: what the task goes on with when scanWebsite
\* rejected
resultsAfterScanError(isTest) ==
    IF isTest THEN cannedResults ELSE syntheticResults

\* results = await scanWebsite(data.url), and the catch around it
ScanSettles(r) ==
    /\ pc[r] = "scanning"
    /\ \E o \in scanWebsiteOutcomes(req[r].url) :
         /\ Logged(r, ScanCall(o.throws))
         /\ IF ~o.throws
            THEN /\ results' = [results EXCEPT ![r] = o.result]
                 /\ pc' = [pc EXCEPT ![r] = "report"]
            ELSE IF routes = "full"
            THEN /\ results' = [results EXCEPT ![r] =
                                   resultsAfterScanError(isTestPage[r])]
                 /\ pc' = [pc EXCEPT ![r] = "report"]
            ELSE /\ pc' = [pc EXCEPT ![r] = "s47"]
                 /\ UNCHANGED results
    /\ UNCHANGED <<routes, req, responses, scans, currentScanId, scanOf,
                   isTestPage, reportPath, loads, accepted, files,
                   clock, ending, sanVars, scanVars>>

\* fs.createWriteStream truncates a file that is already there
writeFiles(disk, written) ==
    {f \in disk : \A w \in written : f.path # w.path} \cup written

\* a catch (reportError) block that logs the error of an external scan and
\* returns
afterReportErrorLogsOnly(rev, isTest) ==
    IF rev = "simple" THEN "s47"
    ELSE IF isTest THEN "basic" ELSE "returned"

\* a catch (reportError) block without the basic report of a test page
afterReportErrorNoBasic(rev, isTest) ==
    IF rev = "simple" THEN "s47" ELSE "u250"

\* the catch (reportError) block: the next call the task awaits
afterReportError(rev, isTest) ==
    IF rev = "simple" THEN "s47"
    ELSE IF isTest THEN "basic" ELSE "u250"

\* reportPath = await generateReport(data.url, results); path.basename; the
\* call of updateScanStatus(scan.id, "completed", reportUrl)
ReportSettles(r) ==
    /\ pc[r] = "report"
    /\ \E t \in clock..MaxClock, mkdirOk \in BOOLEAN, streamOk \in BOOLEAN :
         LET g == generateReport(results[r], t, mkdirOk, streamOk)
         IN  /\ clock' = t
             /\ files' = writeFiles(files, g.written)
             /\ Logged(r, ReportCall("generateReport", g,
                                     mkdirOk /\ streamOk))
             /\ IF g.kind = "pending"
                THEN /\ pc' = [pc EXCEPT ![r] = "hung"]
                     /\ ending' = [ending EXCEPT ![r] = "hung"]
                     /\ UNCHANGED reportPath
                ELSE IF g.kind = "resolved" /\ ~basenameThrows(g.value)
                THEN /\ pc' = [pc EXCEPT ![r] =
                                  IF routes = "full" THEN "u236" ELSE "s43"]
                     /\ reportPath' = [reportPath EXCEPT ![r] = g.value]
                     /\ UNCHANGED ending
                ELSE LET next == afterReportError(routes, isTestPage[r])
                     IN  /\ pc' = [pc EXCEPT ![r] =
                                       IF next = "returned" THEN "done"
                                       ELSE next]
                         /\ ending' = [ending EXCEPT ![r] =
                                           IF next = "returned" THEN next
                                           ELSE @]
                         /\ UNCHANGED reportPath
    /\ UNCHANGED <<routes, req, responses, scans, currentScanId, scanOf,
                   isTestPage, results, loads, accepted, sanVars, scanVars>>

\* reportPath = await generateBasicReport(data.url) and the call of
\* updateScanStatus(scan.id, "completed", reportUrl) after it
BasicSettles(r) ==
    /\ pc[r] = "basic"
    /\ \E t \in clock..MaxClock, mkdirOk \in BOOLEAN, streamOk \in BOOLEAN :
         LET g == generateBasicReport(t, mkdirOk, streamOk)
         IN  /\ clock' = t
             /\ files' = writeFiles(files, g.written)
             /\ Logged(r, ReportCall("generateBasicReport", g,
                                     mkdirOk /\ streamOk))
             /\ IF g.kind = "resolved"
                THEN /\ pc' = [pc EXCEPT ![r] = "u247"]
                     /\ reportPath' = [reportPath EXCEPT ![r] = g.value]
                ELSE /\ pc' = [pc EXCEPT ![r] = "u254"]
                     /\ UNCHANGED reportPath
    /\ UNCHANGED <<routes, req, responses, scans, currentScanId, scanOf,
                   isTestPage, results, loads, accepted, ending, sanVars, scanVars>>

\* part_007: "report.pdf"
StubReportUrl == [literal |-> "report.pdf"]

\* the arguments of the updateScanStatus call awaited at `at`
updateArgs(at, path) ==
    IF at \in CompletedCalls
    THEN [status |-> "completed",
          reportUrl |-> IF at = "t28" THEN StubReportUrl ELSE reportUrlOf(path)]
    ELSE [status |-> "failed", reportUrl |-> Undefined]

\* the catch block a rejected updateScanStatus call lands in, as the next
\* call the task awaits; "caught" is the .catch at the end of the task
afterUpdateRejected(at, isTest) ==
    CASE at = "u236" -> IF isTest THEN "basic" ELSE "u250"
      [] at = "u247" -> "u254"
      [] at = "u250" -> "u254"
      [] at = "u254" -> "u259"
      [] at = "u259" -> "caught"
      [] at = "s43" -> "s47"
      [] at = "s47" -> "caught"
      [] at = "t28" -> "t30"
      [] at = "t30" -> "unhandled"

\* a task in which the statement after an applied update throws, so that the
\* catch block around it runs as it does for a rejected one
afterUpdateThrowsEitherWay(at, ok, isTest) == afterUpdateRejected(at, isTest)

\* where the task goes when the updateScanStatus call awaited at `at` has
\* settled: after an applied update only console.log is left to run
afterUpdate(at, ok, isTest) ==
    IF ok THEN "returned" ELSE afterUpdateRejected(at, isTest)

\* a task that reads the id of the record to update from a variable shared by
\* all requests (the record created last)
lastCreatedScanId(r) == currentScanId - 1

\* scan.id: the const of the request handler that the task closes over
updatedScanId(r) == scanOf[r]

\* await storage.updateScanStatus(...): the UPDATE is applied, or it rejects
\* and leaves the row as it was
UpdateSettles(r) ==
    /\ pc[r] \in UpdateCalls
    /\ \E ok \in BOOLEAN :
         LET a == updateArgs(pc[r], reportPath[r])
             next == afterUpdate(pc[r], ok, isTestPage[r])
         IN  /\ Logged(r, UpdateCall(updatedScanId(r), a.status,
                                      a.reportUrl, ok))
             /\ scans' = IF ok
                         THEN updateScanStatus(scans, updatedScanId(r),
                                               a.status, a.reportUrl)
                         ELSE scans
             /\ IF next \in {"returned", "caught", "unhandled"}
                THEN /\ pc' = [pc EXCEPT ![r] = "done"]
                     /\ ending' = [ending EXCEPT ![r] = next]
                ELSE /\ pc' = [pc EXCEPT ![r] = next]
                     /\ UNCHANGED ending
    /\ UNCHANGED <<routes, req, responses, currentScanId, scanOf, isTestPage,
                   results, reportPath, loads, accepted, files, clock, sanVars, scanVars>>

\* part_007: the setTimeout callback runs and calls updateScanStatus
TimerFires(r) ==
    /\ routes = "stub"
    /\ pc[r] = taskStartsAt
    /\ pc' = [pc EXCEPT ![r] = "t28"]
    /\ UNCHANGED <<routes, req, responses, scans, currentScanId, scanOf,
                   isTestPage, results, reportPath, log, loads, accepted,
                   files, clock, ending, sanVars, scanVars>>

\* app.post("/api/scan/free"): freeScanSchema.parse and the call of
\* sanitizeTarget
PostFree(r) ==
    /\ routes = "full"
    /\ pc[r] = "idle"
    /\ \E valid \in BOOLEAN, url \in FreeUrls :
         /\ valid \/ url = SanInput(FALSE, "", hExample, TRUE)
         /\ req' = [req EXCEPT ![r] = Request("free", TRUE, valid, url)]
         /\ IF ~valid
            THEN pc' = [pc EXCEPT ![r] = "done"] /\ Respond(r, 400)
            ELSE pc' = [pc EXCEPT ![r] = "sanitizing"] /\ UNCHANGED responses
    /\ UNCHANGED <<routes, scans, currentScanId, scanOf, isTestPage, results,
                   reportPath, log, loads, accepted, files, clock, ending,
                   sanVars, scanVars>>

\* the status sent from the catch block of /api/scan/free for an error that
\* is not a ZodError
freeErrorStatus == 500

\* await sanitizeTarget(domainOrUrl) settles: the 200 response and the start
\* of the background task, or the catch block of the handler
FreeSanitizeSettles(r) ==
    /\ pc[r] = "sanitizing"
    /\ \E dns \in FreeDnsAnswers :
         LET out == sanitizeTarget(req[r].url, dns)
         IN  /\ Logged(r, SanitizeCall(out))
             /\ IF out.ok
                THEN /\ accepted' = accepted \cup
                           {[protocol |-> out.protocol, host |-> out.host]}
                     /\ Respond(r, 200)
                     /\ pc' = [pc EXCEPT ![r] = "free_scan"]
                ELSE /\ Respond(r, freeErrorStatus)
                     /\ pc' = [pc EXCEPT ![r] = "done"]
                     /\ UNCHANGED accepted
    /\ UNCHANGED <<routes, req, scans, currentScanId, scanOf, isTestPage,
                   results, reportPath, loads, files, clock, ending,
                   sanVars, scanVars>>

\* the background task of /api/scan/free: scanSinglePageForFree navigates to
\* sanitizedTarget.href once the browser is launched, then
\* generateLimitedReport writes `${scanId}-free.pdf`
FreeScanSettles(r) ==
    /\ pc[r] = "free_scan"
    /\ \E launchOk \in BOOLEAN, reportOk \in BOOLEAN :
         /\ loads' = IF launchOk
                     THEN loads \cup {[protocol |-> urlProtocol(req[r].url),
                                       host |-> urlHostname(req[r].url)]}
                     ELSE loads
         /\ files' = IF reportOk
                     THEN writeFiles(files, ReportFile("free", r, TRUE))
                     ELSE files
    /\ pc' = [pc EXCEPT ![r] = "done"]
    /\ ending' = [ending EXCEPT ![r] = "returned"]
    /\ UNCHANGED <<routes, req, responses, scans, currentScanId, scanOf,
                   isTestPage, results, reportPath, log, accepted, clock,
                   sanVars, scanVars>>

Next ==
    \E r \in Reqs :
        \/ PostScans(r)
        \/ CreateScanSettles(r)
        \/ Respond201(r)
        \/ StartTask(r)
        \/ ScanSettles(r)
        \/ ReportSettles(r)
        \/ BasicSettles(r)
        \/ UpdateSettles(r)
        \/ TimerFires(r)
        \/ PostFree(r)
        \/ FreeSanitizeSettles(r)
        \/ FreeScanSettles(r)

Spec == Init /\ [][Next]_vars

(***************************************************************************)
(* sanitizeTarget on its own, over every input and resolver answer          *)
(***************************************************************************)
SanInit ==
    /\ routes = "full"
    /\ MainIdle
    /\ ScanIdle
    /\ sanInput \in SanInputs
    /\ sanDns \in DnsAnswers
    /\ sanOut = NotCalled

SanCall ==
    /\ sanOut = NotCalled
    /\ sanOut' = sanitizeTarget(sanInput, sanDns)
    /\ UNCHANGED <<sanInput, sanDns, mainVars, scanVars>>

SanNext == SanCall

SanSpec == SanInit /\ [][SanNext]_vars

(***************************************************************************)
(* scanner.ts and free-scanner.ts: one scanner call, await by await        *)
(***************************************************************************)
maxFetchAttempts == 5

\* most violations axe-core reports for a page
MaxViolations == 6

RuleIds == <<"image-alt", "color-contrast", "label", "link-name",
             "html-has-lang", "list", "region">>

\* the impact of a violation; None when axe-core gives none
ImpactCycle == <<"moderate", "critical", None, "minor", "serious">>

\* the first node of a violation: its selector matches a live element
\* ("match") or none ("noMatch"), it has no target ("noSelector"), or the
\* violation has no nodes ("none")
NodeCycle == <<"noMatch", "match", "none", "noSelector">>

\* the k-th violation of the s-th page
Violation(k, s) ==
    [id |-> RuleIds[((k - 1) % Len(RuleIds)) + 1],
     impact |-> ImpactCycle[((k + s) % Len(ImpactCycle)) + 1],
     node |-> NodeCycle[((k + 3 * s - 1) % Len(NodeCycle)) + 1]]

\* most violations of a page on which every selector matches an element
MaxMatching == 2

\* the pages on which the first node of every violation is a live element
MatchingLists ==
    {[k \in 1..n |-> [Violation(k, 0) EXCEPT !.node = "match"]] :
        n \in 1..MaxMatching}

ViolationLists ==
    {[k \in 1..n |-> Violation(k, s)] : n \in 0..MaxViolations, s \in 0..3}
        \cup MatchingLists

\* what axe.run hands to its callback when it does not fail
AxeReports ==
    {[violations |-> v,
      passes |-> <<[id |-> "document-title"]>>,
      incomplete |-> <<[id |-> "color-contrast"]>>] : v \in ViolationLists}

\* a scanWebsite that reports a failed page screenshot as a failed scan
fullResultOrError(axe, screenshot, evidence) ==
    [violations |-> IF screenshot = "null" THEN <<>> ELSE axe.violations,
     passes |-> IF screenshot = "null" THEN <<>> ELSE axe.passes,
     incomplete |-> IF screenshot = "null" THEN <<>> ELSE axe.incomplete,
     error |-> IF screenshot = "null" THEN "Screenshot capture failed"
               ELSE None,
     screenshot |-> IF screenshot = "null" THEN None ELSE screenshot,
     violationScreenshots |-> evidence]

\* scanWebsite: "Return scan result with screenshots if available"
fullResult(axe, screenshot, evidence) ==
    [violations |-> axe.violations, passes |-> axe.passes,
     incomplete |-> axe.incomplete, error |-> None,
     screenshot |-> IF screenshot = "null" THEN None ELSE screenshot,
     violationScreenshots |-> evidence]

\* scanWebsite: "return a partial result with error information"
partialResult(message) ==
    [violations |-> <<>>, passes |-> <<>>, incomplete |-> <<>>,
     error |-> message, screenshot |-> None, violationScreenshots |-> <<>>]

\* scanTestPage: the resolved result, with its static screenshot
testPageResult(axe) ==
    [violations |-> axe.violations, passes |-> axe.passes,
     incomplete |-> axe.incomplete, error |-> None,
     screenshot |-> "dataurl", violationScreenshots |-> <<>>]

Returned(result) == [kind |-> "returned", result |-> result]

Threw(message) == [kind |-> "threw", error |-> message]

\* the raw strings scanWebsite is called with: the sentinel tokens, strings
\* that only look like one, and an external URL
ScanWebsiteUrls ==
    {SanInput(FALSE, "", h, TRUE) :
        h \in {hTest, hTestSample, hTestAccessible, hTest \o <<"s">>}}
    \cup {SanInput(FALSE, "https", hTest, TRUE),
          SanInput(FALSE, "https", hExample, TRUE)}

\* replitDev: process.env.REPL_ID is set and REPL_SLUG is not
ScannerCalls ==
    {[fn |-> "scanWebsite", url |-> u, replitDev |-> e] :
        u \in ScanWebsiteUrls, e \in BOOLEAN}
    \cup {[fn |-> "scanSinglePageForFree", replitDev |-> FALSE,
           url |-> SanInput(FALSE, "https", hExample, TRUE)]}

ScanInit ==
    /\ routes = "full"
    /\ MainIdle
    /\ sanInput = SanInput(TRUE, "", <<>>, FALSE)
    /\ sanDns = DnsFail
    /\ sanOut = NotCalled
    /\ scCall \in ScannerCalls
    /\ scPc = "start"
    /\ fetchAttempts = 0
    /\ fetchLog = <<>>
    /\ scIo = {}
    /\ cap = [o \in Captures |-> CapIdle]
    /\ axeRes = NoResults
    /\ vi = 0
    /\ shots = <<>>
    /\ outlined = {}
    /\ captures = <<>>
    /\ scOut = [kind |-> "pending"]

Capture(pc_, browser, result) ==
    [pc |-> pc_, browser |-> browser, result |-> result]

\* captureScreenshot and captureViolationScreenshots up to their first await:
\* on a Replit development host they return at once, elsewhere
\* puppeteer.launch is called
captureStarted(replitDev) ==
    IF replitDev THEN Capture("returned", "none", "null")
    ELSE Capture("launching", "none", "pending")

\* the call ends: nothing of its main line is left to run
Ends(out) == scPc' = "ended" /\ scOut' = out

\* scanWebsite up to its first await: the sentinel routing and "Ensure URL
\* has a protocol"
ScanWebsiteStart ==
    /\ scCall # NoReq /\ scCall.fn = "scanWebsite"
    /\ scPc = "start"
    /\ scPc' = IF isSentinel(scCall.url) THEN "readFile" ELSE "fetch"
    /\ UNCHANGED <<scCall, fetchAttempts, scIo, cap, axeRes, vi, shots, scOut,
                   fetchLog, outlined, captures,
                   sanVars, mainVars>>

\* scanTestPage: await readFile(fullPath, 'utf-8') and new JSDOM
ScanTestPageReads ==
    /\ scPc = "readFile"
    /\ scIo' = scIo \cup {"readFile"}
    /\ IF testPagePath(scCall.url) \in BundledPages
       THEN scPc' = "testAxe" /\ UNCHANGED scOut
       ELSE Ends(Threw("Test page scan failed"))
    /\ UNCHANGED <<scCall, fetchAttempts, cap, axeRes, vi, shots,
                   fetchLog, outlined, captures,
                   sanVars, mainVars>>

\* scanTestPage: the callback of axe.run
ScanTestPageAxe ==
    /\ scPc = "testAxe"
    /\ \/ /\ Ends(Threw("Failed to run accessibility scan"))
          /\ UNCHANGED axeRes
       \/ \E a \in AxeReports :
             /\ axeRes' = a
             /\ Ends(Returned(testPageResult(a)))
    /\ UNCHANGED <<scCall, fetchAttempts, scIo, cap, vi, shots,
                   fetchLog, outlined, captures,
                   sanVars, mainVars>>

\* const userAgents = [...]: five strings, no two the same
userAgents == <<"Chrome/98 Windows", "Safari/15.4 Macintosh",
                "Chrome/100 Linux", "Edg/99 Windows", "Firefox/98 Windows">>

\* what fetch settles with: status 0 stands for a rejected fetch (network
\* error, timeout); html says that the text has an <html or a <body tag
Response(status, length, html) ==
    [status |-> status, length |-> length, html |-> html]

networkError == Response(0, 0, FALSE)

htmlPage == Response(200, 1001, TRUE)

FetchResponses ==
    {networkError, htmlPage,
     Response(200, 0, FALSE), Response(200, 5000, FALSE),
     Response(200, 5001, FALSE),
     Response(403, 1000, TRUE), Response(403, 1001, TRUE),
     Response(429, 0, FALSE), Response(500, 0, FALSE)}

\* response.ok
responseOk(response) == response.status >= 200 /\ response.status <= 299

Usable(response) == [htmlContent |-> response, error |-> None]

Failed(message) == [htmlContent |-> None, error |-> message]

\* a loop body for which a 403 response is a failed attempt whatever its body
fetchOutcomeStrict(response) ==
    IF response.status = 0 THEN Failed("fetch failed")
    ELSE IF ~responseOk(response)
    THEN IF response.status = 403
         THEN Failed("Access forbidden (403)")
         ELSE IF response.status = 429 THEN Failed("Rate limited (429)")
         ELSE Failed("HTTP error! Status")
    ELSE IF response.length = 0 THEN Failed("Received empty response")
    ELSE IF response.html \/ response.length > 5000 THEN Usable(response)
    ELSE Failed("Received response does not appear to be HTML")

\* the try block of the fetch loop for one response: htmlContent when it
\* leaves the loop with break, the message of the error it throws otherwise
fetchOutcome(response) ==
    IF response.status = 0 THEN Failed("fetch failed")
    ELSE IF ~responseOk(response)
    THEN IF response.status = 403
         THEN IF response.length > 1000 THEN Usable(response)
              ELSE Failed("Access forbidden (403)")
         ELSE IF response.status = 429 THEN Failed("Rate limited (429)")
         ELSE Failed("HTTP error! Status")
    ELSE IF response.length = 0 THEN Failed("Received empty response")
    ELSE IF response.html \/ response.length > 5000 THEN Usable(response)
    ELSE Failed("Received response does not appear to be HTML")

\* a retry that waits the same time after every failed attempt
waitTimeConstant(attempts) == 2000

\* const waitTime = 2000 * fetchAttempts
waitTime(attempts) == 2000 * attempts

\* one attempt as the log keeps it
Attempt(userAgent, response, outcome, waited) ==
    [userAgent |-> userAgent, response |-> response,
     htmlContent |-> outcome.htmlContent, error |-> outcome.error,
     waited |-> waited]

\* one turn of the fetch loop: fetch settles and the turn leaves the loop with
\* the page text, or it counts a failed attempt and waits, or, after the last
\* attempt, throws; after the loop captureScreenshot(url) is started and not
\* awaited
FetchSettles ==
    /\ scPc = "fetch"
    /\ fetchAttempts < maxFetchAttempts
    /\ scIo' = scIo \cup {"fetch"}
    /\ \E response \in FetchResponses :
         LET outcome == fetchOutcome(response)
             agent == userAgents[(fetchAttempts % Len(userAgents)) + 1]
             last == fetchAttempts + 1 >= maxFetchAttempts
         IN  IF outcome.error = None
             THEN /\ fetchLog' = Append(fetchLog,
                                        Attempt(agent, response, outcome, 0))
                  /\ scPc' = "dom"
                  /\ cap' = [cap EXCEPT
                            !["parallel"] = captureStarted(scCall.replitDev)]
                  /\ UNCHANGED <<fetchAttempts, scOut>>
             ELSE /\ fetchAttempts' = fetchAttempts + 1
                  /\ fetchLog' =
                        Append(fetchLog,
                               Attempt(agent, response, outcome,
                                       IF last THEN 0
                                       ELSE waitTime(fetchAttempts + 1)))
                  /\ IF last
                     THEN Ends(Threw(outcome.error))
                     ELSE UNCHANGED <<scPc, scOut>>
                  /\ UNCHANGED cap
    /\ UNCHANGED <<scCall, axeRes, vi, shots, outlined, captures,
                   sanVars, mainVars>>

\* new JSDOM(htmlContent) and its minimal fallback
DomBuilt ==
    /\ scPc = "dom"
    /\ \E ok \in BOOLEAN :
         IF ok THEN scPc' = "axe" /\ UNCHANGED scOut
         ELSE Ends(Threw("Accessibility scan failed"))
    /\ UNCHANGED <<scCall, fetchAttempts, scIo, cap, axeRes, vi, shots,
                   fetchLog, outlined, captures,
                   sanVars, mainVars>>

\* const scanResult = await scanResultPromise; when it resolves,
\* captureScreenshot(url) is called and awaited
AxeSettles ==
    /\ scPc = "axe"
    /\ \/ /\ Ends(Returned(partialResult("Failed to run accessibility scan")))
          /\ UNCHANGED <<axeRes, cap>>
       \/ \E a \in AxeReports :
             /\ axeRes' = a
             /\ cap' = [cap EXCEPT
                          !["main"] = captureStarted(scCall.replitDev)]
             /\ scPc' = "screenshot"
             /\ UNCHANGED scOut
    /\ UNCHANGED <<scCall, fetchAttempts, scIo, vi, shots, fetchLog,
                   outlined, captures,
                   sanVars, mainVars>>

\* a capture that returns from its try block without a finally block
finallyWithoutClose(browser) == "returned"

\* finally { if (browser) { await browser.close() } }: the next await of a
\* capture that leaves its try block
finallyBlock(browser) == IF browser = "open" THEN "closing" ELSE "returned"

\* captureScreenshot: browser = await puppeteer.launch(launchOptions), and
\* catch (launchError) { return null }
CaptureLaunch(o) ==
    /\ o \in {"parallel", "main"}
    /\ cap[o].pc = "launching"
    /\ scIo' = scIo \cup {"launch"}
    /\ \E ok \in BOOLEAN :
         cap' = [cap EXCEPT ![o] =
                    IF ok THEN Capture("navigating", "open", "pending")
                    ELSE Capture(finallyBlock("none"), "none", "null")]
    /\ UNCHANGED <<scCall, scPc, fetchAttempts, axeRes, vi, shots, scOut,
                   fetchLog, outlined, captures,
                   sanVars, mainVars>>

\* captureScreenshot: newPage, page.goto and page.screenshot, with
\* catch (navigationError) and catch (error) returning null
CaptureNavigate(o) ==
    /\ o \in {"parallel", "main"}
    /\ cap[o].pc = "navigating"
    /\ \E ok \in BOOLEAN :
         cap' = [cap EXCEPT ![o] =
                    Capture(finallyBlock(cap[o].browser), cap[o].browser,
                            IF ok THEN "base64" ELSE "null")]
    /\ UNCHANGED <<scCall, scPc, fetchAttempts, scIo, axeRes, vi, shots,
                   scOut, fetchLog, outlined, captures,
                   sanVars, mainVars>>

\* await browser.close() in the finally block; an error of close is logged
CaptureClose(o) ==
    /\ o \in {"parallel", "main", "violations"}
    /\ cap[o].pc = "closing"
    /\ cap' = [cap EXCEPT ![o] = Capture("returned", "closed", cap[o].result)]
    /\ UNCHANGED <<scCall, scPc, fetchAttempts, scIo, axeRes, vi, shots,
                   scOut, fetchLog, outlined, captures,
                   sanVars, mainVars>>

\* screenshot = await captureScreenshot(url) has settled: with violations
\* captureViolationScreenshots is called, without them scanWebsite returns
ScreenshotAwaited ==
    /\ scPc = "screenshot"
    /\ cap["main"].pc = "returned"
    /\ IF Len(axeRes.violations) > 0
       THEN /\ cap' = [cap EXCEPT
                         !["violations"] = captureStarted(scCall.replitDev)]
            /\ scPc' = "evidence"
            /\ UNCHANGED scOut
       ELSE /\ Ends(Returned(fullResult(axeRes, cap["main"].result, <<>>)))
            /\ UNCHANGED cap
    /\ UNCHANGED <<scCall, fetchAttempts, scIo, axeRes, vi, shots,
                   fetchLog, outlined, captures,
                   sanVars, mainVars>>

\* captureViolationScreenshots: browser = await puppeteer.launch(...)
EvidenceLaunch ==
    /\ cap["violations"].pc = "launching"
    /\ scIo' = scIo \cup {"launch"}
    /\ \E ok \in BOOLEAN :
         cap' = [cap EXCEPT !["violations"] =
                    IF ok THEN Capture("goto", "open", "pending")
                    ELSE Capture(finallyBlock("none"), "none", "pending")]
    /\ UNCHANGED <<scCall, scPc, fetchAttempts, axeRes, vi, shots, scOut,
                   fetchLog, outlined, captures,
                   sanVars, mainVars>>

\* captureViolationScreenshots: newPage, page.goto and the wait after it
EvidenceGoto ==
    /\ cap["violations"].pc = "goto"
    /\ \E ok \in BOOLEAN :
         /\ cap' = [cap EXCEPT !["violations"] =
                       Capture(IF ok THEN "loop" ELSE finallyBlock("open"),
                               "open", "pending")]
         /\ vi' = IF ok THEN 1 ELSE vi
    /\ UNCHANGED <<scCall, scPc, fetchAttempts, scIo, axeRes, shots, scOut,
                   fetchLog, outlined, captures,
                   sanVars, mainVars>>

\* "Process up to 5 violations to avoid too many screenshots"
captureLimit == 5

Min(a, b) == IF a < b THEN a ELSE b

Last(seq) == seq[Len(seq)]

\* a loop turn that stores an element image whether or not page.$ found the
\* element
violationScreenshotOfElement(v, i, thrown) ==
    IF v.node \in {"none", "noSelector"} THEN <<>>
    ELSE IF thrown THEN <<>>
    ELSE <<[id |-> v.id, index |-> i, image |-> "element"]>>

\* one turn of the loop of captureViolationScreenshots for the violation v at
\* index i (from 0): what is added to screenshots. A violation without nodes
\* or without a selector is skipped; when the element is not found the
\* viewport is captured instead; thrown says that page.evaluate or
\* page.screenshot threw
violationScreenshot(v, i, thrown) ==
    IF v.node \in {"none", "noSelector"} THEN <<>>
    ELSE IF thrown THEN <<>>
    ELSE <<[id |-> v.id, index |-> i,
            image |-> IF v.node = "match" THEN "element" ELSE "viewport"]>>

\* where a turn of the loop of captureViolationScreenshots can throw: in the
\* page.evaluate that highlights, in page.screenshot, or in the page.evaluate
\* that removes the highlighting after the image was stored
ThrowPoints == {"nowhere", "highlight", "screenshot", "remove"}

\* the elements carrying the outline once the highlighting page.evaluate of
\* the violation v at index i is over: querySelector must find the element
highlight(v, i, at, on) ==
    IF v.node = "match" /\ at # "highlight" THEN on \cup {i} ELSE on

\* the elements carrying the outline at the end of the turn: "Remove
\* highlighting" is the last statement of the try block and runs only when
\* nothing was thrown before it
removeHighlighting(v, i, at, on) ==
    IF at = "nowhere" THEN on \ {i} ELSE on

EvidenceShot ==
    /\ cap["violations"].pc = "loop"
    /\ \E at \in ThrowPoints :
         LET v == axeRes.violations[vi]
             i == vi - 1
             thrown == at \in {"highlight", "screenshot"}
         IN  /\ at # "nowhere" => v.node \in {"match", "noMatch"}
             /\ shots' = shots \o violationScreenshot(v, i, thrown)
             /\ IF v.node \in {"none", "noSelector"}
                THEN UNCHANGED <<outlined, captures>>
                ELSE /\ outlined' = removeHighlighting(v, i, at,
                                        highlight(v, i, at, outlined))
                     /\ captures' =
                          IF thrown THEN captures
                          ELSE Append(captures,
                                  [index |-> i,
                                   outlined |-> highlight(v, i, at, outlined)])
    /\ vi' = vi + 1
    /\ cap' = [cap EXCEPT !["violations"] =
                  Capture(IF vi + 1 > Min(Len(axeRes.violations), captureLimit)
                          THEN finallyBlock("open") ELSE "loop",
                          "open", "pending")]
    /\ UNCHANGED <<scCall, scPc, fetchAttempts, scIo, axeRes, scOut,
                   fetchLog, sanVars, mainVars>>

\* violationScreenshots = await captureViolationScreenshots(...) has settled
EvidenceAwaited ==
    /\ scPc = "evidence"
    /\ cap["violations"].pc = "returned"
    /\ Ends(Returned(fullResult(axeRes, cap["main"].result, shots)))
    /\ UNCHANGED <<scCall, fetchAttempts, scIo, cap, axeRes, vi, shots,
                   fetchLog, outlined, captures,
                   sanVars, mainVars>>

\* free-scanner.ts: const impactOrder
impactOrder == <<"critical", "serious", "moderate", "minor">>

\* a comparator that leaves indexOf's -1 for an impact that is not listed
impactIndexOfRaw(impact) ==
    IF \E i \in 1..Len(impactOrder) : impactOrder[i] = impact
    THEN (CHOOSE i \in 1..Len(impactOrder) : impactOrder[i] = impact) - 1
    ELSE 0 - 1

\* aIndex === -1 ? 999 : aIndex
impactIndex(impact) ==
    IF \E i \in 1..Len(impactOrder) : impactOrder[i] = impact
    THEN (CHOOSE i \in 1..Len(impactOrder) : impactOrder[i] = impact) - 1
    ELSE 999

RECURSIVE sortByImpact(_)
\* axeResults.violations.sort(...) with the comparator on impactIndex; the
\* sort of Array.prototype is stable
sortByImpact(list) ==
    IF list = <<>> THEN <<>>
    ELSE LET rest == sortByImpact(Tail(list))
             h == Head(list)
             k == Cardinality({i \in 1..Len(rest) :
                      impactIndex(rest[i].impact) < impactIndex(h.impact)})
         IN  SubSeq(rest, 1, k) \o <<h>> \o SubSeq(rest, k + 1, Len(rest))

\* "Take exactly 2 violations"
freeLimit == 2

\* sortedViolations.slice(0, 2)
selected(violations) ==
    SubSeq(sortByImpact(violations), 1, Min(freeLimit, Len(violations)))

\* one turn of the shots loop of scanSinglePageForFree: what is pushed for the
\* violation v. Without a selector nothing is pushed; b64 is null when the
\* element is not found, when its box is too small (small) or when the
\* capture threw
freeShot(v, small, thrown) ==
    IF v.node \in {"none", "noSelector"} THEN <<>>
    ELSE <<[ruleId |-> v.id,
            b64 |-> IF v.node = "match" /\ ~small /\ ~thrown
                    THEN "element" ELSE "null"]>>

freeResult(violations, evidence) ==
    [violations |-> violations, fullB64 |-> "base64", shots |-> evidence,
     error |-> None]

\* the result returned from the catch block of scanSinglePageForFree
freeErrorResult ==
    [violations |-> <<>>, fullB64 |-> "", shots |-> <<>>,
     error |-> "Unknown error occurred"]

\* browser = await puppeteer.launch(getBrowserConfig())
FreeLaunch ==
    /\ scCall # NoReq /\ scCall.fn = "scanSinglePageForFree"
    /\ scPc = "start"
    /\ scIo' = scIo \cup {"launch"}
    /\ \E ok \in BOOLEAN :
         IF ok
         THEN /\ cap' = [cap EXCEPT
                           !["free"] = Capture("used", "open", "pending")]
              /\ scPc' = "page"
         ELSE /\ scPc' = "catch"
              /\ UNCHANGED cap
    /\ UNCHANGED <<scCall, fetchAttempts, axeRes, vi, shots, scOut,
                   fetchLog, outlined, captures,
                   sanVars, mainVars>>

\* newPage, page.goto, the first screenshot and the axe run in the page
FreePage ==
    /\ scPc = "page"
    /\ \/ scPc' = "catch" /\ UNCHANGED axeRes
       \/ \E a \in AxeReports :
             /\ axeRes' = [a EXCEPT !.violations = sortByImpact(@)]
             /\ scPc' = "fullShot"
    /\ UNCHANGED <<scCall, fetchAttempts, scIo, cap, vi, shots, scOut,
                   fetchLog, outlined, captures,
                   sanVars, mainVars>>

\* const fullBuf = await page.screenshot({ fullPage: true, type: 'png' })
FreeFullShot ==
    /\ scPc = "fullShot"
    /\ \E ok \in BOOLEAN :
         /\ scPc' = IF ~ok THEN "catch"
                    ELSE IF selected(axeRes.violations) = <<>> THEN "close"
                    ELSE "shots"
         /\ vi' = IF ok THEN 1 ELSE vi
    /\ UNCHANGED <<scCall, fetchAttempts, scIo, cap, axeRes, shots, scOut,
                   fetchLog, outlined, captures,
                   sanVars, mainVars>>

\* for (const violation of selected) { ... }
\* the elements carrying the outline after the turn of the shots loop for
\* the violation v at index i: the outline is set when the element was found
\* and its box is big enough, and no statement takes it off again
freeHighlight(v, i, small, at, on) ==
    IF v.node = "match" /\ ~small /\ at # "highlight" THEN on \cup {i}
    ELSE on

FreeShot ==
    /\ scPc = "shots"
    /\ \E small \in BOOLEAN, at \in ThrowPoints \ {"remove"} :
         LET v == selected(axeRes.violations)[vi]
             i == vi - 1
             thrown == at # "nowhere"
         IN  /\ (small \/ thrown) => v.node = "match"
             /\ ~(small /\ thrown)
             /\ shots' = shots \o freeShot(v, small, thrown)
             /\ outlined' = freeHighlight(v, i, small, at, outlined)
             /\ captures' =
                  IF v.node = "match" /\ ~small /\ ~thrown
                  THEN Append(captures,
                          [index |-> i,
                           outlined |->
                              freeHighlight(v, i, small, at, outlined)])
                  ELSE captures
    /\ vi' = vi + 1
    /\ scPc' = IF vi + 1 > Len(selected(axeRes.violations)) THEN "close"
               ELSE "shots"
    /\ UNCHANGED <<scCall, fetchAttempts, scIo, cap, axeRes, scOut,
                   fetchLog, sanVars, mainVars>>

\* await browser.close(); browser = null; return {...}: when close throws
\* the catch block runs with browser still set
FreeClose ==
    /\ scPc = "close"
    /\ \E ok \in BOOLEAN :
         IF ok
         THEN /\ cap' = [cap EXCEPT
                           !["free"] = Capture("returned", "closed", "null")]
              /\ Ends(Returned(freeResult(selected(axeRes.violations),
                                          shots)))
         ELSE /\ cap' = [cap EXCEPT
                           !["free"] = Capture("used", "closed", "pending")]
              /\ scPc' = "catch"
              /\ UNCHANGED scOut
    /\ UNCHANGED <<scCall, fetchAttempts, scIo, axeRes, vi, shots,
                   fetchLog, outlined, captures,
                   sanVars, mainVars>>

\* the statement of the catch block that releases the browser
catchBlock(browser) == IF browser = "none" THEN "return" ELSE "close"

\* catch (error) { if (browser) { await browser.close() } return {...} }: a
\* close that throws here rejects the promise of scanSinglePageForFree
FreeCatch ==
    /\ scPc = "catch"
    /\ IF catchBlock(cap["free"].browser) = "return"
       THEN /\ Ends(Returned(freeErrorResult))
            /\ cap' = [cap EXCEPT !["free"] =
                          Capture("returned", cap["free"].browser, "null")]
       ELSE \E ok \in BOOLEAN :
              /\ cap' = [cap EXCEPT
                           !["free"] = Capture("returned", "closed", "null")]
              /\ Ends(IF ok THEN Returned(freeErrorResult)
                      ELSE Threw("browser.close"))
    /\ UNCHANGED <<scCall, fetchAttempts, scIo, axeRes, vi, shots,
                   fetchLog, outlined, captures,
                   sanVars, mainVars>>

\* the steps of one scanner call; here a fetch answers with an HTML page or
\* is rejected
ScanNext ==
    \/ ScanWebsiteStart
    \/ ScanTestPageReads
    \/ ScanTestPageAxe
    \/ FetchSettles /\ Last(fetchLog').response \in {htmlPage, networkError}
    \/ DomBuilt
    \/ AxeSettles
    \/ \E o \in Captures : CaptureLaunch(o)
    \/ \E o \in Captures : CaptureNavigate(o)
    \/ \E o \in Captures : CaptureClose(o)
    \/ ScreenshotAwaited
    \/ EvidenceLaunch
    \/ EvidenceGoto
    \/ EvidenceShot
    \/ EvidenceAwaited
    \/ FreeLaunch
    \/ FreePage
    \/ FreeFullShot
    \/ FreeShot
    \/ FreeClose
    \/ FreeCatch

ScanSpec == ScanInit /\ [][ScanNext]_vars

\* generateReport: results.violations.filter(v => v.impact === impact)
groupedViolations(violations, impact) ==
    SelectSeq(violations, LAMBDA v : v.impact = impact)

\* generateReport: the keys `${violation.id}_${index}` it looks up in
\* results.violationScreenshots, index counting inside the impact group
violationKeys(violations) ==
    UNION {{[id |-> groupedViolations(violations, impactOrder[g])[i].id,
             index |-> i - 1] :
               i \in 1..Len(groupedViolations(violations, impactOrder[g]))} :
           g \in 1..Len(impactOrder)}

(***************************************************************************)
(* scanner.ts: the fetch loop of scanWebsite over every response           *)
(***************************************************************************)
FetchInit ==
    /\ ScanInit
    /\ scCall.fn = "scanWebsite"
    /\ ~isSentinel(scCall.url)

FetchNext == ScanWebsiteStart \/ FetchSettles

FetchSpec == FetchInit /\ [][FetchNext]_vars

(***************************************************************************)
(* part_006: several POST /api/scans requests served concurrently          *)
(***************************************************************************)
\* number of scan requests in flight together
MaxTasks == 2

Tasks == 1..MaxTasks

\* the page every one of the concurrent requests asks for
PairUrl == SanInput(FALSE, "https", hExample, TRUE)

PairInit ==
    /\ routes = "full"
    /\ pc = [r \in Tasks |-> "idle"]
    /\ req = [r \in Tasks |-> NoReq]
    /\ responses = [r \in Tasks |-> <<>>]
    /\ scans = <<>>
    /\ currentScanId = 1
    /\ scanOf = [r \in Tasks |-> 0]
    /\ isTestPage = [r \in Tasks |-> FALSE]
    /\ results = [r \in Tasks |-> NoResults]
    /\ reportPath = [r \in Tasks |-> Undefined]
    /\ log = [r \in Tasks |-> <<>>]
    /\ loads = {}
    /\ accepted = {}
    /\ files = {}
    /\ clock = 0
    /\ ending = [r \in Tasks |-> "running"]
    /\ ScanIdle
    /\ sanInput = SanInput(TRUE, "", <<>>, FALSE)
    /\ sanDns = DnsFail
    /\ sanOut = NotCalled

\* the requests are authenticated and valid and axe-core finds a violation on
\* the page; storage, report generation and the clock are free
PairNext ==
    \E r \in Tasks :
        \/ /\ PostScans(r)
           /\ req'[r].authed /\ req'[r].valid /\ req'[r].url = PairUrl
        \/ CreateScanSettles(r)
        \/ Respond201(r)
        \/ StartTask(r)
        \/ /\ ScanSettles(r)
           /\ results'[r] # NoResults /\ results'[r].violations # <<>>
        \/ ReportSettles(r)
        \/ UpdateSettles(r)

PairSpec == PairInit /\ [][PairNext]_vars

(***************************************************************************)
(* Properties                                                              *)
(***************************************************************************)
Terminal == {"completed", "failed"}

\* request r went through POST /api/scans and its record was created
ScanTask(r) == req[r] # NoReq /\ req[r].endpoint = "scans" /\ scanOf[r] # 0

\* the background task of r has run to its end
TaskFinished(r) == ScanTask(r) /\ pc[r] = "done"

IsUpdate(e) == e.ev = "updateScanStatus"

IsReport(e) == e.ev \in {"generateReport", "generateBasicReport"}

\* the updateScanStatus calls of r, in order
UpdatesOf(r) == SelectSeq(log[r], IsUpdate)

\* some entry of r's log satisfies P
Some(r, P(_)) == \E k \in 1..Len(log[r]) : P(log[r][k])

ScanThrew(e) == e.ev = "scanWebsite" /\ e.threw

\* a report generator did not hand the orchestrator a path
ReportFailed(e) ==
    IsReport(e) /\ (e.kind = "rejected" \/ e.value = Undefined)

ReportMade(e) == IsReport(e) /\ e.kind = "resolved" /\ e.value # Undefined

UpdateRejected(e) == IsUpdate(e) /\ ~e.ok

EnvOk(r) == \A k \in 1..Len(log[r]) : IsReport(log[r][k]) => log[r][k].envOk

\* the storage applied every updateScanStatus call of r
StorageOk(r) == \A k \in 1..Len(log[r]) : ~UpdateRejected(log[r][k])

\* the scan of r is of a real external URL whose page load failed
ExternalLoadFailed(r) ==
    ScanTask(r) /\ routes = "full" /\ ~isSentinel(req[r].url)
        /\ Some(r, ScanThrew)

\* C2 (as stated): a finished scan of an external URL whose page load failed
\* went on with the synthetic error result, a report file was produced for
\* it, and its record is completed with a report URL.
C2_LoadFailureEndsCompleted ==
    \A r \in Reqs :
        (TaskFinished(r) /\ ExternalLoadFailed(r) /\ EnvOk(r) /\ StorageOk(r))
            => /\ results[r] = syntheticResults
               /\ Some(r, ReportMade)
               /\ scans[scanOf[r]].status = "completed"
               /\ scans[scanOf[r]].reportUrl # NullUrl

\* C2 witness: such a scan has finished, with directory, stream and storage
\* all working, and its record is failed without a report URL.
C2_Witness ==
    \E r \in Reqs :
        /\ TaskFinished(r) /\ ExternalLoadFailed(r) /\ EnvOk(r) /\ StorageOk(r)
        /\ results[r] = syntheticResults
        /\ scans[scanOf[r]].status = "failed"
        /\ scans[scanOf[r]].reportUrl = NullUrl

\* the k-th call of r's log is generateReport on a result whose lists are
\* present and whose rule results are complete, in a working environment
ReportCallOnLists(r, k) ==
    /\ log[r][k].ev = "generateReport"
    /\ log[r][k].envOk
    /\ results[r].lists
    /\ ~tagsDereferenceThrows(results[r].violations)
    /\ ~tagsDereferenceThrows(results[r].passes)

\* C3 (as stated): for every result whose violations and passes lists are
\* present, with or without `error` and a screenshot, generateReport resolves
\* with the path of a PDF file it has finished writing, never without a path.
C3_ReportResolvesWithFinishedFile ==
    \A r \in Reqs : \A k \in 1..Len(log[r]) :
        ReportCallOnLists(r, k)
            => /\ log[r][k].kind = "resolved"
               /\ log[r][k].value # Undefined
               /\ \E f \in files : f.path = log[r][k].value /\ f.complete

\* C3 witness: generateReport was handed a result with `error` set and
\* resolved with undefined, leaving an unfinished file.
C3_Witness ==
    \E r \in Reqs : \E k \in 1..Len(log[r]) :
        /\ ReportCallOnLists(r, k)
        /\ results[r].error # None
        /\ log[r][k].kind = "resolved"
        /\ log[r][k].value = Undefined
        /\ \E f \in files : ~f.complete

\* C4 (as stated): when generateReport has failed, for a sentinel or an
\* external target, no updateScanStatus(failed) call is made before
\* generateBasicReport has been attempted and has failed too.
C4_BasicReportBeforeFailed ==
    \A r \in Reqs : \A j, k \in 1..Len(log[r]) :
        (/\ routes = "full"
         /\ j < k
         /\ log[r][j].ev = "generateReport"
         /\ ReportFailed(log[r][j])
         /\ IsUpdate(log[r][k])
         /\ log[r][k].status = "failed")
            => \E i \in (j + 1)..(k - 1) :
                  /\ log[r][i].ev = "generateBasicReport"
                  /\ ReportFailed(log[r][i])

\* C4 witness: an external scan whose generateReport failed was marked
\* failed although generateBasicReport was never called.
C4_Witness ==
    \E r \in Reqs :
        /\ TaskFinished(r) /\ routes = "full" /\ ~isSentinel(req[r].url)
        /\ \E j \in 1..Len(log[r]) :
              log[r][j].ev = "generateReport" /\ ReportFailed(log[r][j])
        /\ \A j \in 1..Len(log[r]) : log[r][j].ev # "generateBasicReport"
        /\ StorageOk(r)
        /\ scans[scanOf[r]].status = "failed"

UpdatesWellOrdered ==
    \A r \in Reqs :
        ScanTask(r) =>
            LET u == UpdatesOf(r)
            IN  /\ TaskFinished(r) => Len(u) >= 1
                /\ \A k \in 1..Len(u) :
                      u[k].status \in Terminal /\ u[k].id = scanOf[r]
                /\ \A k \in 2..Len(u) : ~u[k - 1].ok

\* a step leaves a record that is completed or failed as it is
TerminalIsStable ==
    \A id \in DOMAIN scans :
        scans[id].status \in Terminal => scans'[id] = scans[id]

C6_LoadsOnlyAcceptedTargets == \A t \in loads : t \in accepted

\* C6 witness: POST /api/scans has issued a fetch to 10.0.0.5 and
\* sanitizeTarget was never called for the request.
C6_Witness ==
    \E r \in Reqs :
        /\ ScanTask(r)
        /\ req[r].url.host = IpStr(<<10, 0, 0, 5>>)
        /\ fetchTarget(req[r].url) \in loads
        /\ \A k \in 1..Len(log[r]) : log[r][k].ev # "sanitizeTarget"

\* loopback, private, link-local and multicast (224.0.0.0/4), by octets
InListedRanges(o) ==
    \/ o[1] = 127
    \/ o[1] = 10
    \/ o[1] = 172 /\ o[2] \in 16..31
    \/ o[1] = 192 /\ o[2] = 168
    \/ o[1] = 169 /\ o[2] = 254
    \/ o[1] \in 224..239

\* the addresses whose text is the host typed or one of the resolved ones
HostAddresses == {o \in Addresses : sanInput.host = IpStr(o)}

ResolvedAddresses ==
    {o \in DnsPool : \E k \in 1..Len(sanDns.ips) : sanDns.ips[k] = IpStr(o)}

\* C7 (as stated): sanitizeTarget returns a target only if the resolution
\* succeeded and every resolved address is outside the listed ranges; when
\* the resolution fails or one address is inside, it returns none.
C7_DnsCheckFailsClosed ==
    (sanOut # NotCalled /\ sanOut.ok)
        => sanDns.ok /\ \A o \in ResolvedAddresses : ~InListedRanges(o)

\* C7 witness: a public-looking host that resolves to 239.255.255.250 was
\* accepted.
C7_Witness ==
    /\ sanOut # NotCalled
    /\ sanOut.ok
    /\ sanInput.host = hExample
    /\ <<239, 255, 255, 250>> \in ResolvedAddresses

\* C8 (as stated): isPrivateIP is true of every address in the listed ranges,
\* so sanitizeTarget returns no target that has one as host or resolved
\* address.
C8_ListedRangesArePrivate ==
    \A o \in HostAddresses \cup ResolvedAddresses :
        InListedRanges(o)
            => /\ isPrivateIP(IpStr(o))
               /\ sanOut # NotCalled => ~sanOut.ok

\* C8 witness: the literal host 225.0.0.5 went through sanitizeTarget and
\* was accepted.
C8_Witness ==
    /\ sanOut # NotCalled
    /\ sanOut.ok
    /\ sanInput.host = IpStr(<<225, 0, 0, 5>>)

SanitizeRejected(e) == e.ev = "sanitizeTarget" /\ ~e.ok

\* sanitizeTarget has rejected the input of the free scan request r
FreeRejected(r) ==
    req[r] # NoReq /\ req[r].endpoint = "free" /\ Some(r, SanitizeRejected)

\* C9 (as stated): when sanitizeTarget rejects the input of POST
\* /api/scan/free the caller gets one 4xx response and no scan is started.
C9_RejectionIsClientError ==
    \A r \in Reqs :
        FreeRejected(r)
            => /\ Len(responses[r]) = 1
               /\ responses[r][1] \in 400..499
               /\ pc[r] = "done"
               /\ ending[r] = "running"

\* C9 witness: the rejection of https://10.0.0.5 was answered with 500.
C9_Witness ==
    \E r \in Reqs :
        /\ FreeRejected(r)
        /\ req[r].url.host = IpStr(<<10, 0, 0, 5>>)
        /\ responses[r] = <<500>>

\* the background task of r has run its first statement
TaskStarted(r) ==
    pc[r] \in {"scanning", "report", "basic", "hung", "done"} \cup UpdateCalls

\* C10: in POST /api/scans the record is created pending and the 201 is sent
\* before scanWebsite, a report generator or updateScanStatus is called, and
\* whatever the background task does, the caller gets that one response.
C10_RespondedBeforeTaskStarts ==
    \A r \in Reqs :
        ScanTask(r) =>
            /\ pc[r] \in {"created", "responded"} =>
                  /\ scans[scanOf[r]] = [status |-> "pending",
                                         reportUrl |-> NullUrl]
                  /\ log[r] = <<>>
            /\ pc[r] = "created" => responses[r] = <<>>
            /\ (pc[r] = "responded" \/ TaskStarted(r)) =>
                  responses[r] = <<201>>

\* C10 witness: a task whose scan and storage calls failed has ended in the
\* .catch of its promise, and the caller has the 201 and nothing else.
C10_Witness ==
    \E r \in Reqs :
        /\ TaskFinished(r)
        /\ Some(r, ScanThrew)
        /\ Some(r, UpdateRejected)
        /\ ending[r] = "caught"
        /\ responses[r] = <<201>>

\* the scan of r is of a sentinel token and scanWebsite threw, under the
\* routes that know test pages
SentinelScanThrew(r) ==
    ScanTask(r) /\ routes = "full" /\ isSentinel(req[r].url)
        /\ Some(r, ScanThrew)

\* the call logged right after the scanWebsite call of r is generateReport
ReportFollowsScan(r) ==
    \A k \in 1..Len(log[r]) :
        (log[r][k].ev = "scanWebsite" /\ k < Len(log[r]))
            => log[r][k + 1].ev = "generateReport"

\* r's log has a failed call of the report generator fn
ReportFnFailed(r, fn) ==
    \E k \in 1..Len(log[r]) : log[r][k].ev = fn /\ ReportFailed(log[r][k])

\* the canned result is what goes to the report, with a violation and a pass
CannedResultUsed(r) ==
    /\ results[r] = cannedResults
    /\ Len(results[r].violations) >= 1
    /\ Len(results[r].passes) >= 1
    /\ ReportFollowsScan(r)

UpdateCompletedRejected(e) == UpdateRejected(e) /\ e.status = "completed"

ExactToken(url) ==
    url \in {SanInput(FALSE, "", h, TRUE) :
                h \in {hTest, hTestSample, hTestAccessible}}

\* the scanWebsite call under way went to scanTestPage
FixtureRouted == scPc \in {"readFile", "testAxe"} \/ "readFile" \in scIo

ScanWebsiteCalled == scCall.fn = "scanWebsite" /\ scPc # "start"

CallEnded == scPc = "ended"

\* C12 (as stated): scanWebsite goes to the test page exactly for the three
\* sentinel tokens, and for a sentinel it issues no fetch, launches no
\* browser, does not fail and returns the result of a page that exists under
\* server/test-pages.
C12_SentinelsUseBundledPage ==
    ScanWebsiteCalled =>
        /\ FixtureRouted <=> ExactToken(scCall.url)
        /\ ExactToken(scCall.url) =>
              /\ "fetch" \notin scIo /\ "launch" \notin scIo
              /\ testPagePath(scCall.url) \in BundledPages
              /\ CallEnded => scOut.kind = "returned"

\* C12 witness: scanWebsite("test-sample") has thrown after the read of
\* sample.html, which is not among the bundled pages.
C12_Witness ==
    /\ scCall.fn = "scanWebsite"
    /\ scCall.url = SanInput(FALSE, "", hTestSample, TRUE)
    /\ "readFile" \in scIo
    /\ CallEnded
    /\ scOut.kind = "threw"

\* the loop of captureViolationScreenshots has run over every considered
\* violation and the browser was released
EvidenceLoopDone ==
    /\ scCall.fn = "scanWebsite"
    /\ cap["violations"].pc = "returned"
    /\ cap["violations"].browser = "closed"
    /\ vi > Min(captureLimit, Len(axeRes.violations))

\* scanSinglePageForFree has returned the result of a scan that went through
FreeScanReturned ==
    /\ scCall.fn = "scanSinglePageForFree"
    /\ CallEnded
    /\ scOut.kind = "returned"
    /\ scOut.result.error = None

\* C13 (as stated): evidence capture returns exactly min(limit, number of
\* violations) entries, one per considered violation, with limit 5 in
\* captureViolationScreenshots and 2 in scanSinglePageForFree, also for
\* violations without nodes or selector.
C13_OneEntryPerConsideredViolation ==
    /\ EvidenceLoopDone =>
          Len(shots) = Min(captureLimit, Len(axeRes.violations))
    /\ FreeScanReturned =>
          Len(scOut.result.shots) = Min(freeLimit, Len(axeRes.violations))

\* C13 witness: captureViolationScreenshots went through six violations'
\* first five and returned fewer than five entries.
C13_Witness ==
    /\ EvidenceLoopDone
    /\ Len(axeRes.violations) > captureLimit
    /\ Len(shots) < captureLimit

\* the loops of both functions reach every considered violation
CaptureContinues ==
    /\ (/\ scCall.fn = "scanWebsite"
        /\ cap["violations"].pc \in {"closing", "returned"}
        /\ cap["violations"].browser # "none"
        /\ vi > 0)
          => vi > Min(captureLimit, Len(axeRes.violations))
    /\ (scCall.fn = "scanSinglePageForFree" /\ scPc = "close")
          => vi > Len(selected(axeRes.violations))

Severity(impact) ==
    CASE impact = "critical" -> 4
      [] impact = "serious" -> 3
      [] impact = "moderate" -> 2
      [] impact = "minor" -> 1
      [] OTHER -> 0

NonIncreasingSeverity(list) ==
    \A i, j \in 1..Len(list) :
        i < j => Severity(list[i].impact) >= Severity(list[j].impact)

\* C15 (as stated): in every result a scan returns (scanWebsite,
\* scanTestPage, scanSinglePageForFree) no violation comes before one of
\* strictly higher severity.
C15_ViolationsBySeverity ==
    (CallEnded /\ scOut.kind = "returned")
        => NonIncreasingSeverity(scOut.result.violations)

\* C15 witness: scanWebsite has returned, for an external URL, a result
\* whose first violation is less severe than its second.
C15_Witness ==
    /\ scCall.fn = "scanWebsite"
    /\ ~ExactToken(scCall.url)
    /\ CallEnded /\ scOut.kind = "returned"
    /\ Len(scOut.result.violations) >= 2
    /\ Severity(scOut.result.violations[1].impact)
          < Severity(scOut.result.violations[2].impact)

\* C16: in captureScreenshot, captureViolationScreenshots and
\* scanSinglePageForFree, a call that has returned (normally, after a launch
\* failure, a navigation failure, a screenshot error or a rule-engine error)
\* has invoked close() on every browser it launched.
C16_LaunchedBrowserClosedOnReturn ==
    /\ \A o \in {"parallel", "main", "violations"} :
          cap[o].pc = "returned" => cap[o].browser \in {"none", "closed"}
    /\ (scCall.fn = "scanSinglePageForFree" /\ CallEnded)
          => cap["free"].browser \in {"none", "closed"}

\* C16 witness: captureScreenshot launched a browser, failed to navigate and
\* returned null with the browser closed.
C16_Witness ==
    /\ cap["main"].pc = "returned"
    /\ cap["main"].result = "null"
    /\ cap["main"].browser = "closed"

ExternalScanEnded ==
    scCall.fn = "scanWebsite" /\ ~ExactToken(scCall.url) /\ CallEnded

\* C17 (as stated): when scanWebsite returns or throws for an external URL,
\* every capture it started, the one started next to the DOM construction
\* included, has returned and no browser of the call is open or being
\* launched.
C17_NoBrowserOutlivesScan ==
    ExternalScanEnded =>
        \A o \in {"parallel", "main", "violations"} :
            /\ cap[o].pc \in {"idle", "returned"}
            /\ cap[o].browser # "open"

\* C17 witness: scanWebsite has returned its result while the browser of the
\* capture it never awaits is open.
C17_Witness ==
    /\ ExternalScanEnded
    /\ scOut.kind = "returned"
    /\ scOut.result.error = None
    /\ cap["parallel"].browser = "open"

\* C18: when the fetch and the rule run of scanWebsite succeeded, the call
\* returns the rule run's violations, passes and incomplete lists unchanged
\* with no error, whatever became of the screenshot captures; a failed page
\* capture only leaves the screenshot out.
C18_ScreenshotFailureKeepsScan ==
    (ExternalScanEnded /\ axeRes # NoResults) =>
        /\ scOut.kind = "returned"
        /\ scOut.result.violations = axeRes.violations
        /\ scOut.result.passes = axeRes.passes
        /\ scOut.result.incomplete = axeRes.incomplete
        /\ scOut.result.error = None
        /\ cap["main"].result = "null" => scOut.result.screenshot = None
        /\ scOut.result.violationScreenshots = shots

\* C18 witness: the page capture failed after its launch, the launch of the
\* evidence capture failed, and scanWebsite has returned a result with
\* violations.
C18_Witness ==
    /\ ExternalScanEnded
    /\ axeRes # NoResults
    /\ Len(axeRes.violations) > 0
    /\ cap["main"].result = "null"
    /\ cap["main"].browser = "closed"
    /\ cap["violations"].pc = "returned"
    /\ cap["violations"].browser = "none"
    /\ ~scCall.replitDev
    /\ scOut.kind = "returned"

\* C19 (as stated): in every revision of the scan routes a rejection raised
\* inside a background scan task ends in a catch handler; none is left
\* unhandled.
C19_NoUnhandledRejection ==
    \A r \in Reqs : ScanTask(r) => ending[r] # "unhandled"

\* C19 witness: in the revision that completes the scan from a timer, both
\* updateScanStatus calls of the callback were rejected and the second
\* rejection had no handler.
C19_Witness ==
    \E r \in Reqs :
        /\ ScanTask(r)
        /\ routes = "stub"
        /\ ending[r] = "unhandled"
        /\ Len(UpdatesOf(r)) = 2
        /\ \A k \in 1..2 : UpdateRejected(UpdatesOf(r)[k])

IsFullReport(e) == e.ev = "generateReport"

\* the result of r is not the output of a full scan: it was substituted after
\* scanWebsite threw, or it is what scanWebsite returns when axe.run failed
Degraded(r) == Some(r, ScanThrew) \/ results[r] = ruleEngineFailure

\* C20 (as stated): a result handed to generateReport has its error field
\* set exactly when it is a degraded or fallback outcome: the synthetic
\* load-failure result, the rule-engine-failure result or the canned
\* substitute for a test page.
C20_ErrorSetIffDegraded ==
    \A r \in Reqs :
        (ScanTask(r) /\ Some(r, IsFullReport))
            => (results[r].error # None <=> Degraded(r))

\* C20 witness: scanWebsite threw for a sentinel and the canned result went
\* to generateReport with no error set.
C20_Witness ==
    \E r \in Reqs :
        /\ SentinelScanThrew(r)
        /\ Some(r, IsFullReport)
        /\ results[r] = cannedResults
        /\ results[r].error = None

\* the requests whose scan record was created
Created == {r \in DOMAIN scanOf : scanOf[r] # 0}

IsAppliedUpdate(e) == IsUpdate(e) /\ e.ok

RECURSIVE RowAfter(_, _, _)
\* the table with the one row id after the updates of the sequence us
RowAfter(table, id, us) ==
    IF us = <<>> THEN table
    ELSE RowAfter(updateScanStatus(table, id, Head(us).status,
                                   Head(us).reportUrl),
                  id, Tail(us))

\* the record of r as r's own applied updates alone leave it
OwnRecord(r) ==
    RowAfter(createScan(<<>>, scanOf[r]), scanOf[r],
             SelectSeq(log[r], IsAppliedUpdate))[scanOf[r]]

\* C21: with several scans running concurrently each background task calls
\* updateScanStatus only with the id of the record its own request created,
\* no two tasks write the same record, and the record of a scan is what its
\* own task's updates make of it, whatever the interleaving with the others.
C21_TaskWritesOnlyItsOwnRecord ==
    /\ \A r \in Created :
          /\ \A k \in 1..Len(log[r]) :
                IsUpdate(log[r][k]) => log[r][k].id = scanOf[r]
          /\ scans[scanOf[r]] = OwnRecord(r)
    /\ \A r1, r2 \in Created : r1 # r2 => scanOf[r1] # scanOf[r2]

\* C21 witness: the request that came second got its record first; its scan
\* is failed and the other scan is completed, both tasks have finished.
C21_Witness ==
    /\ {1, 2} \subseteq Created
    /\ scanOf[1] = 2 /\ scanOf[2] = 1
    /\ pc[1] = "done" /\ pc[2] = "done"
    /\ scans[2].status = "completed"
    /\ scans[1].status = "failed"

\* the attempts of the log that threw
FailedAttempts == {k \in 1..Len(fetchLog) : fetchLog[k].error # None}

FetchThrew == scPc = "ended" /\ scOut.kind = "threw"

\* C22: the fetch loop of scanWebsite makes at most 5 attempts and stops at
\* the first usable response; it waits 2000*k ms after the k-th failed attempt
\* for k = 1..4, sends a different User-Agent on each attempt, and after the
\* 5th failure throws without a wait and without a 6th attempt.
C22_FetchLoopBounded ==
    /\ Len(fetchLog) <= maxFetchAttempts
    /\ fetchAttempts = Cardinality(FailedAttempts)
    /\ \A k \in 1..Len(fetchLog) :
          /\ k < Len(fetchLog) => k \in FailedAttempts
          /\ (k \in FailedAttempts /\ k < maxFetchAttempts)
                => fetchLog[k].waited = 2000 * k
          /\ (k \in FailedAttempts /\ k = maxFetchAttempts)
                => fetchLog[k].waited = 0 /\ FetchThrew
          /\ \A j \in 1..Len(fetchLog) :
                j # k => fetchLog[j].userAgent # fetchLog[k].userAgent
    /\ \A k \in 1..(Len(fetchLog) - 1) :
          fetchLog[k].waited < fetchLog[k + 1].waited
             \/ k + 1 = maxFetchAttempts \/ k + 1 \notin FailedAttempts
    /\ FetchThrew <=> Cardinality(FailedAttempts) = maxFetchAttempts
    /\ scPc = "dom" => Len(fetchLog) \notin FailedAttempts

\* C22 witness: five attempts failed, the waits were 2000, 4000, 6000 and
\* 8000 ms, and scanWebsite threw.
C22_Witness ==
    /\ FetchThrew
    /\ Len(fetchLog) = 5
    /\ [k \in 1..4 |-> fetchLog[k].waited] = <<2000, 4000, 6000, 8000>>
    /\ Cardinality({fetchLog[k].userAgent : k \in 1..5}) = 5

Is403WithLargeBody(response) ==
    response.status = 403 /\ response.length > 1000

Non2xx(response) ==
    response.status # 0 /\ (response.status < 200 \/ response.status > 299)

RateLimitedFailure == "Rate limited (429)"

\* C23: a 403 response with a body of more than 1000 characters ends the
\* fetch loop as a success with that body; every other non-2xx response is a
\* failed attempt; and the error scanWebsite throws when the load ends on a
\* 429 response is the rate-limited one, which no other response produces.
C23_StatusHandling ==
    /\ \A k \in 1..Len(fetchLog) :
          LET a == fetchLog[k]
          IN  /\ Is403WithLargeBody(a.response) =>
                    /\ a.error = None
                    /\ a.htmlContent = a.response
                    /\ k = Len(fetchLog)
                    /\ scPc = "dom"
              /\ (Non2xx(a.response) /\ ~Is403WithLargeBody(a.response))
                    => k \in FailedAttempts
              /\ a.error = RateLimitedFailure <=> a.response.status = 429
    /\ FetchThrew =>
          (scOut.error = RateLimitedFailure
              <=> Last(fetchLog).response.status = 429)

\* C23 witness: after a 429 and a short 403 the third attempt got a 403 with
\* a long body and the loop ended with that body as the page text.
C23_Witness ==
    /\ Len(fetchLog) = 3
    /\ fetchLog[1].response.status = 429
    /\ fetchLog[2].response = Response(403, 1000, TRUE)
    /\ fetchLog[3].response = Response(403, 1001, TRUE)
    /\ scPc = "dom"

\* before its k-th logged call, r's log has a report generator call that
\* resolved with the path whose file name the URL url carries
ReportProducedBefore(r, k, url) ==
    \E j \in 1..(k - 1) :
        /\ IsReport(log[r][j])
        /\ log[r][j].kind = "resolved"
        /\ log[r][j].value # Undefined
        /\ url = reportUrlOf(log[r][j].value)

\* every updateScanStatus call of r: completed goes with the URL of a report
\* a generator returned before, failed goes without a URL
UpdateCarriesReport(r) ==
    \A k \in 1..Len(log[r]) :
        IsUpdate(log[r][k]) =>
            IF log[r][k].status = "completed"
            THEN ReportProducedBefore(r, k, log[r][k].reportUrl)
            ELSE log[r][k].status = "failed"
                 /\ log[r][k].reportUrl = Undefined

\* a completed record has the URL of a report its own task produced
CompletedHasReport(r) ==
    scans[scanOf[r]].status = "completed" =>
        \E k \in 1..(Len(log[r]) + 1) :
            ReportProducedBefore(r, k, scans[scanOf[r]].reportUrl)

\* C24 (as stated): a record with status completed has a report URL made of
\* /reports/ and the file name of a report that was produced, it is set to
\* completed only after a report generator returned a path, and failed is
\* written without a report URL.
C24_CompletedHasProducedReport ==
    \A r \in Reqs :
        ScanTask(r) => UpdateCarriesReport(r) /\ CompletedHasReport(r)

\* C24 witness: the timer of part_007 has set the record to completed with
\* the URL "report.pdf" and no report generator was ever called.
C24_Witness ==
    \E r \in Reqs :
        /\ ScanTask(r)
        /\ routes = "stub"
        /\ scans[scanOf[r]].status = "completed"
        /\ scans[scanOf[r]].reportUrl = StubReportUrl
        /\ ~Some(r, IsReport)

\* the elements of a sequence
Range(seq) == {seq[k] : k \in 1..Len(seq)}

\* C25: scanSinglePageForFree returns at most 2 violations and at most 2
\* evidence shots, the returned violations are among those found, and no
\* violation left out is strictly more severe (critical > serious > moderate
\* > minor > unknown) than one that is returned.
C25_FreeScanKeepsMostSevere ==
    FreeScanReturned =>
        /\ Len(scOut.result.violations) <= 2
        /\ Len(scOut.result.shots) <= 2
        /\ Len(scOut.result.violations) = Min(2, Len(axeRes.violations))
        /\ Range(scOut.result.violations) \subseteq Range(axeRes.violations)
        /\ \A out \in Range(axeRes.violations)
                        \ Range(scOut.result.violations) :
              \A in \in Range(scOut.result.violations) :
                  Severity(out.impact) <= Severity(in.impact)

\* C25 witness: of six violations found the free scan returned two, with two
\* evidence shots, and left out one of lower severity.
C25_Witness ==
    /\ FreeScanReturned
    /\ Len(axeRes.violations) = 6
    /\ Len(scOut.result.violations) = 2
    /\ Len(scOut.result.shots) = 2
    /\ \E out \in Range(axeRes.violations) \ Range(scOut.result.violations) :
          Severity(out.impact) < Severity(scOut.result.violations[2].impact)

\* scanWebsite has returned the result of a scan that went through
FullScanReturned ==
    ExternalScanEnded /\ scOut.kind = "returned" /\ scOut.result.error = None

\* the key captureViolationScreenshots stored the shot under
StoredKey(shot) == [id |-> shot.id, index |-> shot.index]

\* C26 (as stated): every evidence screenshot captureViolationScreenshots
\* stored is found by generateReport: the key it was stored under (rule id
\* and index in the whole violations list) is one of the keys generateReport
\* looks up (rule id and index inside the impact group).
C26_StoredEvidenceIsFound ==
    FullScanReturned =>
        \A k \in 1..Len(scOut.result.violationScreenshots) :
            StoredKey(scOut.result.violationScreenshots[k])
                \in violationKeys(scOut.result.violations)

\* C26 witness: scanWebsite returned a screenshot for a violation of a listed
\* impact, stored under a key generateReport does not look up.
C26_Witness ==
    /\ FullScanReturned
    /\ \E k \in 1..Len(scOut.result.violationScreenshots) :
          LET shot == scOut.result.violationScreenshots[k]
          IN  /\ StoredKey(shot) \notin violationKeys(scOut.result.violations)
              /\ Severity(scOut.result.violations[shot.index + 1].impact) > 0

\* the report generator calls of r that resolved with a path
ReportPathsOf(r) ==
    {log[r][k].value : k \in {j \in 1..Len(log[r]) :
        IsReport(log[r][j]) /\ log[r][j].kind = "resolved"
            /\ log[r][j].value # Undefined}}

\* C27 (as stated): the report paths the generators return for two distinct
\* scans are distinct, also when both calls read the same clock value, and
\* two completed scans never carry the same report URL.
C27_ReportPathsDistinct ==
    \A r1, r2 \in Created :
        r1 # r2 =>
            /\ ReportPathsOf(r1) \cap ReportPathsOf(r2) = {}
            /\ (scans[scanOf[r1]].status = "completed"
                /\ scans[scanOf[r2]].status = "completed")
                  => scans[scanOf[r1]].reportUrl # scans[scanOf[r2]].reportUrl

\* C27 witness: two scans whose generateReport calls read the same clock
\* value are both completed with the same report URL.
C27_Witness ==
    /\ {1, 2} \subseteq Created
    /\ scans[1].status = "completed"
    /\ scans[2].status = "completed"
    /\ scans[1].reportUrl = scans[2].reportUrl
    /\ ReportPathsOf(1) = ReportPathsOf(2)
    /\ Cardinality(files) = 1

\* C28 (as stated): the promise generateReport returns always settles, also
\* when the write stream of the report fails: every call ends resolved or
\* rejected, and no task stays at its await of generateReport for ever.
C28_GenerateReportSettles ==
    \A r \in Reqs :
        /\ \A k \in 1..Len(log[r]) :
              log[r][k].ev = "generateReport"
                  => log[r][k].kind \in {"resolved", "rejected"}
        /\ ending[r] # "hung"

\* C28 witness: the write stream of generateReport failed, the promise is
\* pending, and the task is stuck at its await with the record still pending.
C28_Witness ==
    \E r \in Reqs :
        /\ ScanTask(r)
        /\ ending[r] = "hung"
        /\ Last(log[r]).ev = "generateReport"
        /\ Last(log[r]).kind = "pending"
        /\ scans[scanOf[r]].status = "pending"

FreeScanEnded == scCall.fn = "scanSinglePageForFree" /\ CallEnded

\* launch, navigation, rule run, screenshots and the shots loop all went
\* through: only browser.close() was left to run
FreeScanWentThrough ==
    /\ scCall.fn = "scanSinglePageForFree"
    /\ axeRes # NoResults
    /\ vi > Len(selected(axeRes.violations))

\* C29 (as stated): scanSinglePageForFree never rejects; a result with error
\* set has no violations and no shots; and when the scan itself went through,
\* a failure of browser.close() does not lose the violations that were found.
C29_FreeScanNeverRejects ==
    FreeScanEnded =>
        /\ scOut.kind = "returned"
        /\ scOut.result.error # None =>
              scOut.result.violations = <<>> /\ scOut.result.shots = <<>>
        /\ FreeScanWentThrough =>
              scOut.result.violations = selected(axeRes.violations)

\* C29 witness: the scan found violations, browser.close() threw after it,
\* and the call returned the error result with no violations.
C29_Witness ==
    /\ FreeScanEnded
    /\ FreeScanWentThrough
    /\ Len(axeRes.violations) > 0
    /\ scOut.kind = "returned"
    /\ scOut.result.error # None
    /\ scOut.result.violations = <<>>

\* every evidence screenshot was taken with no outline on any element but
\* the one of the violation it shows
OnlyOwnOutline(capture) == capture.outlined \subseteq {capture.index}

\* C30 (as stated): at each per-violation evidence screenshot the only element
\* carrying the highlight outline is the element of the violation being
\* captured, also when an earlier capture failed.
C30_OnlyCapturedElementHighlighted ==
    \A k \in 1..Len(captures) : OnlyOwnOutline(captures[k])

\* C30 witness: the full scanner's capture of one violation threw after the
\* highlight was set, and the screenshot of a later violation was taken with
\* the earlier element still outlined.
C30_Witness ==
    /\ scCall # NoReq /\ scCall.fn = "scanWebsite"
    /\ \E k \in 1..Len(captures) :
          /\ captures[k].index \in captures[k].outlined
          /\ \E j \in captures[k].outlined : j < captures[k].index

====
